---- MODULE Spec2Model ----
(***************************************************************************)
(* Model of etl.py of sparkify_aws_dl: the module-level configuration      *)
(* load, create_spark_session, process_song_data, process_log_data and     *)
(* main, run against a catalog (song_data) and an event log (log_data).    *)
(*                                                                         *)
(* A relation (DataFrame, table on disk) is a sequence of rows; the order  *)
(* of the rows carries no meaning and every property compares relations as *)
(* bags of rows.  Spark evaluates a DataFrame lazily: a temporary view     *)
(* names a query over the input files, and a write evaluates it against    *)
(* the files as they are at that moment.  The input files do not change    *)
(* while the job runs.                                                     *)
(***************************************************************************)
EXTENDS Bags, FiniteSets, Integers, Sequences, TLC

-----------------------------------------------------------------------------
(* Bounds of the model *)

\* most catalog files under song_data/
MaxSongs == 2
\* most event records under log_data/
MaxEvents == 2
\* most runs of main in one behaviour
MaxRuns == 2

-----------------------------------------------------------------------------
(* Values *)

\* SQL NULL in a string column (a JSON null in the record)
NULL == "<null>"

\* ts of an event as read from JSON: missing, a number of milliseconds, or
\* a string that is no number
NoTs == [tag |-> "absent", n |-> 0]
NumTs(n) == [tag |-> "num", n |-> n]
BadTs == [tag |-> "str", n |-> 0]

\* a SQL timestamp: NULL, or an instant in whole seconds and microseconds
NullTime == [null |-> TRUE, sec |-> 0, micros |-> 0]

\* SQL comparison a = b used as a condition: NULL on either side is no match
SqlEq(a, b) == a # NULL /\ b # NULL /\ a = b

-----------------------------------------------------------------------------
(* Input records *)

Song(id, title, artist_id, year, artist_name, location) ==
    [song_id |-> id, title |-> title, artist_id |-> artist_id, year |-> year,
     duration |-> 200, artist_name |-> artist_name,
     artist_location |-> location, artist_latitude |-> 1,
     artist_longitude |-> 1]

Event(page, userId, level, ts, sessionId, song, artist) ==
    [page |-> page, userId |-> userId, firstName |-> "Jo", lastName |-> "Do",
     gender |-> "F", level |-> level, ts |-> ts, sessionId |-> sessionId,
     song |-> song, artist |-> artist, userAgent |-> "UA"]

\* the catalog records the inputs are drawn from: two records sharing one
\* (title, artist_name) pair, one with another pair, one with no title
SongPool ==
    << Song("S1", "Song A", "E1", 2000, "Band A", "Loc A"),
       Song("S2", "Song A", "E3", 2001, "Band A", NULL),
       Song("S3", "Song B", "E2", 2000, "Band B", "Loc B"),
       Song("S4", NULL, "E1", 2000, "Band A", "Loc A") >>

\* the event records the inputs are drawn from
EventPool ==
    << Event("NextSong", "7", "free", NumTs(1500), 1, "Song A", "Band A"),
       Event("NextSong", "7", "paid", NoTs, 2, "Song B", "Band B"),
       Event("NextSong", "8", "free", BadTs, 3, "Song A", "Band B"),
       Event("Home", "9", "free", NumTs(90061250), 4, "Song A", "Band A"),
       Event("nextsong", "6", "free", NumTs(2500), 5, "Song B", "Band B"),
       Event("NextSong", "8", "paid", NumTs(1500), 6, NULL, "Band A") >>

\* sequences over 1..n of length at most k, in nondecreasing order: one
\* representative of each bag of at most k records of a pool of n
Picks(n, k) ==
    { s \in UNION { [1..m -> 1..n] : m \in 0..k } :
        \A i \in 1..(Len(s) - 1) : s[i] <= s[i + 1] }

Pick(pool, s) == [i \in 1..Len(s) |-> pool[s[i]]]

-----------------------------------------------------------------------------
(* Relational helpers *)

RECURSIVE Distinct(_)
\* SELECT DISTINCT: one copy of every row
Distinct(rows) ==
    IF rows = << >> THEN << >>
    ELSE LET init == Distinct(SubSeq(rows, 1, Len(rows) - 1))
             last == rows[Len(rows)]
         IN  IF \E i \in 1..Len(init) : init[i] = last
             THEN init ELSE Append(init, last)

RECURSIVE Flatten(_)
Flatten(seqs) ==
    IF seqs = << >> THEN << >> ELSE Head(seqs) \o Flatten(Tail(seqs))

\* the rows of a relation as a bag
RECURSIVE RowBag(_)
RowBag(rows) ==
    IF rows = << >> THEN EmptyBag
    ELSE RowBag(Tail(rows)) (+) SetToBag({Head(rows)})

Rows(rows) == { rows[i] : i \in 1..Len(rows) }

-----------------------------------------------------------------------------
(* Reading the input *)

\* spark.read.json(path) fails when the path pattern matches no file
PathExists(files) == files # << >>

\* schema inference: the relation has a ts column when some record has ts
HasTsColumn(df) == \E i \in 1..Len(df) : df[i].ts.tag # "absent"

FilterAnyPage(df) == df

\* df.filter(df.page == 'NextSong')
FilterNextSong(df) ==
    SelectSeq(df, LAMBDA e : SqlEq(e.page, "NextSong"))

-----------------------------------------------------------------------------
(* Timestamps *)

\* to_timestamp(ts/1000): the instant ts milliseconds after the epoch, with
\* its fraction of a second kept; NULL when ts is missing or no number
to_timestamp(ts) ==
    IF ts.tag = "num"
    THEN [null |-> FALSE, sec |-> ts.n \div 1000,
          micros |-> (ts.n % 1000) * 1000]
    ELSE NullTime

\* days since 1970-01-01 (session time zone UTC)
EpochDay(t) == t.sec \div 86400

\* The date parts below are those of the instants of January and February
\* 1970, which cover all the instants a ts of 31 bits of milliseconds
\* reaches.
hour(t) == (t.sec \div 3600) % 24
\* 1 = Sunday ... 7 = Saturday; 1970-01-01 was a Thursday
dayofweek(t) == ((EpochDay(t) + 4) % 7) + 1
\* ISO week: week 1 of 1970 began on Monday 1969-12-29
weekofyear(t) == ((EpochDay(t) + 3) \div 7) + 1
month(t) == IF EpochDay(t) < 31 THEN 1 ELSE 2
year(t) == 1970 + (EpochDay(t) \div 365)

-----------------------------------------------------------------------------
(* The five queries *)

\* etl.py 46-54
songs_table(songs) ==
    Distinct([i \in 1..Len(songs) |->
        [song_id |-> songs[i].song_id, title |-> songs[i].title,
         artist_id |-> songs[i].artist_id, year |-> songs[i].year,
         duration |-> songs[i].duration]])

\* etl.py 61-69
artists_table(songs) ==
    Distinct([i \in 1..Len(songs) |->
        [artist_id |-> songs[i].artist_id,
         artist_name |-> songs[i].artist_name,
         artist_location |-> songs[i].artist_location,
         artist_latitude |-> songs[i].artist_latitude,
         artist_longitude |-> songs[i].artist_longitude]])

UserRow(e) ==
    [userId |-> e.userId, firstName |-> e.firstName,
     lastName |-> e.lastName, gender |-> e.gender, level |-> e.level]

\* etl.py 99-107
users_table(log) == Distinct([i \in 1..Len(log) |-> UserRow(log[i])])

TimeRow(t) ==
    [start_time |-> t, hour |-> hour(t), day |-> dayofweek(t),
     week |-> weekofyear(t), month |-> month(t), year |-> year(t),
     weekday |-> dayofweek(t)]

TimeKeepAll(t) == TRUE

\* WHERE start_time IS NOT NULL
TimeWhere(t) == ~t.null

\* etl.py 114-127
time_table(log) ==
    LET T == [i \in 1..Len(log) |-> to_timestamp(log[i].ts)]
        kept == SelectSeq(T, TimeWhere)
    IN  [i \in 1..Len(kept) |-> TimeRow(kept[i])]

JoinOnTitle(e, s) == SqlEq(e.song, s.title)

\* ON (log.song = song.title) AND (log.artist = song.artist_name)
JoinOn(e, s) == SqlEq(e.song, s.title) /\ SqlEq(e.artist, s.artist_name)

\* the columns of a songplays row other than songplay_id
PlayRow(e, s) ==
    [start_time |-> to_timestamp(e.ts), userId |-> e.userId,
     level |-> e.level, song_id |-> s.song_id, artist_id |-> s.artist_id,
     sessionId |-> e.sessionId, artist_location |-> s.artist_location,
     userAgent |-> e.userAgent]

\* log JOIN song: the matching catalog rows of every log row
Joined(log, song) ==
    Flatten([i \in 1..Len(log) |->
        LET m == SelectSeq(song, LAMBDA s : JoinOn(log[i], s))
        IN  [j \in 1..Len(m) |-> PlayRow(log[i], m[j])]])

\* monotonically_increasing_id(): the partition of the row in the upper
\* bits and its position in the partition in the lower 33 bits, written
\* <<partition, position>>.  The engine lays the rows out; here the first
\* k rows are in partition 0 and the others in partition 1.
monotonically_increasing_id(i, k) ==
    IF i <= k THEN <<0, i - 1>> ELSE <<1, i - k - 1>>

WithId(row, id) ==
    [songplay_id |-> id, start_time |-> row.start_time,
     userId |-> row.userId, level |-> row.level, song_id |-> row.song_id,
     artist_id |-> row.artist_id, sessionId |-> row.sessionId,
     artist_location |-> row.artist_location, userAgent |-> row.userAgent]

WithoutId(r) ==
    [start_time |-> r.start_time, userId |-> r.userId, level |-> r.level,
     song_id |-> r.song_id, artist_id |-> r.artist_id,
     sessionId |-> r.sessionId, artist_location |-> r.artist_location,
     userAgent |-> r.userAgent]

\* etl.py 139-153, under the layout k
songplays_table(log, song, k) ==
    LET j == Joined(log, song)
    IN  Distinct([i \in 1..Len(j) |->
            WithId(j[i], monotonically_increasing_id(i, k))])

-----------------------------------------------------------------------------
(* Configuration file dl.cfg *)

KeyId == "AWS_ACCESS_KEY_ID"
Secret == "AWS_SECRET_ACCESS_KEY"

\* a configuration file: whether it exists, its sections and its options
\* as <<section, option>> pairs
ConfigFile(exists, sections, options) ==
    [exists |-> exists, sections |-> sections, options |-> options]

StandardConfig ==
    ConfigFile(TRUE, {"AWS"}, {<<"AWS", KeyId>>, <<"AWS", Secret>>})

ConfigFiles ==
    { StandardConfig,
      ConfigFile(TRUE, {"AWS"}, {<<"AWS", KeyId>>, <<"DEFAULT", Secret>>}),
      ConfigFile(FALSE, {}, {}),
      ConfigFile(TRUE, {"S3"}, {<<"S3", KeyId>>, <<"S3", Secret>>}),
      ConfigFile(TRUE, {"AWS"}, {<<"AWS", Secret>>}),
      ConfigFile(TRUE, {"AWS"}, {<<"AWS", KeyId>>}) }

\* open('dl.cfg') raises when the file is missing
OpenOk(c) == c.exists

GetIgnoringMissing(c, section, option) == TRUE

\* config.get(section, option) raises NoSectionError when the file has no
\* such section and NoOptionError when neither the section nor DEFAULT has
\* the option
GetOk(c, section, option) ==
    /\ section \in c.sections
    /\ (<<section, option>> \in c.options
        \/ <<"DEFAULT", option>> \in c.options)

\* etl.py 9-13 run without raising
ConfigLoads(c) ==
    /\ OpenOk(c)
    /\ GetOk(c, "AWS", KeyId)
    /\ GetOk(c, "AWS", Secret)

-----------------------------------------------------------------------------
(* Locations *)

\* values of the argument local_data, as Python literals
Flags == {"True", "False", "1", "'yes'"}

\* local_data == True in Python: True and 1 compare equal to True
EqualsTrue(flag) == flag \in {"True", "1"}

input_data(flag) ==
    IF EqualsTrue(flag) THEN "data/" ELSE "s3a://udacity-dend/"

output_data(flag) ==
    IF EqualsTrue(flag) THEN "sparkify_data_lake/"
    ELSE "s3a://udacity-dend/sparkify_data_lake/"

OutputRoots ==
    {"sparkify_data_lake/", "s3a://udacity-dend/sparkify_data_lake/"}

TableDirs ==
    {"songs_tables/", "artists_tables/", "users_tables/", "time_tables/",
     "songplays_tables/"}

SongDataPath(input) == input \o "song_data/*/*/*/*.json"
LogDataPath(input) == input \o "log_data/*.json"
SongsPath(output) == output \o "songs_tables/"
ArtistsPath(output) == output \o "artists_tables/"
UsersPath(output) == output \o "users_tables/"
TimePathAnalytics(output) == "s3a://spakify_analytics/time/"
TimePath(output) == output \o "time_tables/"
SongplaysPath(output) == output \o "songplays_tables/"

-----------------------------------------------------------------------------
(* The output store *)

WriteAppend(old, new) == old \o new

WriteIgnore(old, new) == IF old = << >> THEN new ELSE old

\* DataFrameWriter.parquet(path, mode='overwrite'): what the location
\* holds after the write, given what it held and the rows written
WriteOverwrite(old, new) == new

Content(st, path) == IF path \in DOMAIN st THEN st[path] ELSE << >>

Put(st, path, rows) ==
    [p \in (DOMAIN st) \cup {path} |-> IF p = path THEN rows ELSE st[p]]

Parquet(st, path, rows) ==
    Put(st, path, WriteOverwrite(Content(st, path), rows))

\* records of an earlier, unrelated input
StaleSongs == << Song("S0", "Old Song", "E0", 1999, "Old Band", "Loc 0") >>
StaleEvent == Event("Home", "0", "free", NoTs, 0, "Old Song", "Old Band")

StaleTable(dir) ==
    CASE dir = "songs_tables/" -> songs_table(StaleSongs)
      [] dir = "artists_tables/" -> artists_table(StaleSongs)
      [] dir = "users_tables/" -> << UserRow(StaleEvent) >>
      [] dir = "time_tables/" -> << TimeRow(NullTime) >>
      [] dir = "songplays_tables/" ->
            << WithId(PlayRow(StaleEvent, StaleSongs[1]), <<0, 0>>) >>

StorePaths == { r \o d : r \in OutputRoots, d \in TableDirs }

EmptyStore == [p \in StorePaths |-> << >>]

DirOf(p) == CHOOSE d \in TableDirs : \E r \in OutputRoots : p = r \o d

StaleStore == [p \in StorePaths |-> StaleTable(DirOf(p))]

\* what the output locations may hold before the first run
PriorStores == {EmptyStore, StaleStore}

-----------------------------------------------------------------------------
(* State *)

VARIABLES
    cfg,         \* the file dl.cfg
    environ,     \* the credentials set in os.environ
    local_data,  \* the argument of main
    song_files,  \* the records under <input>song_data/
    log_files,   \* the records under <input>log_data/
    store,       \* output location -> the rows it holds
    spark,       \* whether the Spark session exists
    views,       \* the temporary views registered in the session
    in_data,     \* main's input_data
    out_data,    \* main's output_data
    pc,          \* the statement the process is at
    run,         \* the number of the current run of main
    start,       \* store when the current run of main began
    trace        \* the steps of the current run, in order

vars == <<cfg, environ, local_data, song_files, log_files, store, spark,
          views, in_data, out_data, pc, run, start, trace>>

inputs == <<cfg, local_data, song_files, log_files>>

ProgramOrderTimeFirst ==
    << "read_songs", "write_songs", "write_artists", "read_log",
       "write_time", "write_users", "reread_songs", "write_songplays" >>

\* the reads and writes of process_song_data and process_log_data, in the
\* order main runs them
ProgramOrder ==
    << "read_songs", "write_songs", "write_artists", "read_log",
       "write_users", "write_time", "reread_songs", "write_songplays" >>

Steps == { ProgramOrder[i] : i \in 1..Len(ProgramOrder) }

IndexOf(step) == CHOOSE i \in 1..Len(ProgramOrder) : ProgramOrder[i] = step

\* the statement after a step that did not raise
After(step) ==
    IF IndexOf(step) = Len(ProgramOrder) THEN "done"
    ELSE ProgramOrder[IndexOf(step) + 1]

\* the location a step reads or writes
PathOf(step, input, output) ==
    CASE step = "read_songs" -> SongDataPath(input)
      [] step = "write_songs" -> SongsPath(output)
      [] step = "write_artists" -> ArtistsPath(output)
      [] step = "read_log" -> LogDataPath(input)
      [] step = "write_users" -> UsersPath(output)
      [] step = "write_time" -> TimePath(output)
      [] step = "reread_songs" -> SongDataPath(input)
      [] step = "write_songplays" -> SongplaysPath(output)

IsWrite(step) ==
    step \in {"write_songs", "write_artists", "write_users", "write_time",
              "write_songplays"}

Entry(step, path, ok) == [step |-> step, path |-> path, ok |-> ok]

InitOf(configs, flags, maxSongs, maxEvents) ==
    /\ cfg \in configs
    /\ local_data \in flags
    /\ \E s \in Picks(Len(SongPool), maxSongs) :
          song_files = Pick(SongPool, s)
    /\ \E s \in Picks(Len(EventPool), maxEvents) :
          log_files = Pick(EventPool, s)
    /\ store \in PriorStores
    /\ environ = {}
    /\ spark = FALSE
    /\ views = {}
    /\ in_data = ""
    /\ out_data = ""
    /\ pc = "import"
    /\ run = 1
    /\ start = store
    /\ trace = << >>

\* python etl.py: main(local_data=True) with a dl.cfg that loads
Init == InitOf({StandardConfig}, {"True"}, MaxSongs, MaxEvents)

-----------------------------------------------------------------------------
(* Actions *)

\* etl.py 9-13: the module-level configuration load
LoadConfig ==
    /\ pc = "import"
    /\ IF ConfigLoads(cfg)
       THEN /\ environ' = {KeyId, Secret}
            /\ pc' = "main"
       ELSE /\ environ' = IF OpenOk(cfg) /\ GetOk(cfg, "AWS", KeyId)
                          THEN {KeyId} ELSE {}
            /\ pc' = "crashed"
    /\ UNCHANGED <<inputs, store, spark, views, in_data, out_data, run,
                   start, trace>>

\* etl.py 166-173: create_spark_session and the choice of the locations
CreateSparkSession ==
    /\ pc = "main"
    /\ spark' = TRUE
    /\ in_data' = input_data(local_data)
    /\ out_data' = output_data(local_data)
    /\ trace' = Append(trace, Entry("session", "", TRUE))
    /\ pc' = ProgramOrder[1]
    /\ UNCHANGED <<inputs, environ, store, views, run, start>>

Done(step) ==
    /\ trace' = Append(trace, Entry(step, PathOf(step, in_data, out_data), TRUE))
    /\ pc' = After(step)
    /\ UNCHANGED <<inputs, environ, spark, in_data, out_data, run, start>>

\* etl.py 37-43
ReadSongData ==
    /\ pc = "read_songs"
    /\ PathExists(song_files)
    /\ views' = views \cup {"songs"}
    /\ UNCHANGED store
    /\ Done("read_songs")

\* etl.py 46-57
WriteSongs ==
    /\ pc = "write_songs"
    /\ "songs" \in views
    /\ store' = Parquet(store, SongsPath(out_data), songs_table(song_files))
    /\ UNCHANGED views
    /\ Done("write_songs")

\* etl.py 61-72
WriteArtists ==
    /\ pc = "write_artists"
    /\ "songs" \in views
    /\ store' = Parquet(store, ArtistsPath(out_data),
                        artists_table(song_files))
    /\ UNCHANGED views
    /\ Done("write_artists")

\* etl.py 87-95
ReadLogData ==
    /\ pc = "read_log"
    /\ PathExists(log_files)
    /\ views' = views \cup {"log"}
    /\ UNCHANGED store
    /\ Done("read_log")

\* the rows of the view log
LogView == FilterNextSong(log_files)

\* etl.py 99-110
WriteUsers ==
    /\ pc = "write_users"
    /\ "log" \in views
    /\ store' = Parquet(store, UsersPath(out_data), users_table(LogView))
    /\ UNCHANGED views
    /\ Done("write_users")

\* etl.py 114-131; the query does not analyse when log has no ts column
WriteTime ==
    /\ pc = "write_time"
    /\ "log" \in views
    /\ HasTsColumn(log_files)
    /\ store' = Parquet(store, TimePath(out_data), time_table(LogView))
    /\ UNCHANGED views
    /\ Done("write_time")

\* etl.py 134-135
ReReadSongData ==
    /\ pc = "reread_songs"
    /\ PathExists(song_files)
    /\ views' = views \cup {"song"}
    /\ UNCHANGED store
    /\ Done("reread_songs")

\* etl.py 139-156
WriteSongplays ==
    /\ pc = "write_songplays"
    /\ {"log", "song"} \subseteq views
    /\ HasTsColumn(log_files)
    /\ \E k \in 0..Len(Joined(LogView, song_files)) :
          store' = Parquet(store, SongplaysPath(out_data),
                           songplays_table(LogView, song_files, k))
    /\ UNCHANGED views
    /\ Done("write_songplays")

RolledBack(st, before) == before

\* no statement of etl.py catches an exception: the store stays as the
\* failed step left it
Uncaught(st, before) == st

\* what a location may hold after a write to it failed: what it held, or
\* nothing (overwrite deletes the location before it writes)
FailedWrite(old) == {old, << >>}

\* a read or a write raises: the process ends
Fail ==
    /\ pc \in Steps
    /\ LET path == PathOf(pc, in_data, out_data)
       IN  /\ trace' = Append(trace, Entry(pc, path, FALSE))
           /\ IF IsWrite(pc)
              THEN \E rows \in FailedWrite(Content(store, path)) :
                      store' = Uncaught(Put(store, path, rows), start)
              ELSE store' = Uncaught(store, start)
    /\ pc' = "crashed"
    /\ UNCHANGED <<inputs, environ, spark, views, in_data, out_data, run,
                   start>>

\* main is called again in the same process, on the same input
RunAgain ==
    /\ pc = "done"
    /\ run < MaxRuns
    /\ run' = run + 1
    /\ start' = store
    /\ trace' = << >>
    /\ pc' = "main"
    /\ UNCHANGED <<inputs, environ, store, spark, views, in_data, out_data>>

Next ==
    \/ LoadConfig
    \/ CreateSparkSession
    \/ ReadSongData
    \/ WriteSongs
    \/ WriteArtists
    \/ ReadLogData
    \/ WriteUsers
    \/ WriteTime
    \/ ReReadSongData
    \/ WriteSongplays
    \/ Fail
    \/ RunAgain

Spec == Init /\ [][Next]_vars

\* main called with any flag, under any dl.cfg
MaxEnvFiles == 1
InitEnv == InitOf(ConfigFiles, Flags, MaxEnvFiles, MaxEnvFiles)
SpecEnv == InitEnv /\ [][Next]_vars

-----------------------------------------------------------------------------
(* Properties *)

\* the rows an output table of the current run holds
Table(dir) == Content(store, out_data \o dir)

NextSongEvents == { e \in Rows(log_files) : e.page = "NextSong" }

\* the trace holds a completed step of this name
Completed(step) ==
    \E i \in 1..Len(trace) : trace[i].step = step /\ trace[i].ok

\* a songplays row carries the event columns of e
FromEvent(r, e) ==
    /\ r.userId = e.userId
    /\ r.level = e.level
    /\ r.sessionId = e.sessionId
    /\ r.userAgent = e.userAgent
    /\ r.start_time = to_timestamp(e.ts)

\* C1 (filtering law): once process_log_data has completed, every row of
\* the users table and every row of the songplays table is the row of some
\* event whose page is exactly 'NextSong', and an event with another page
\* leaves a row in neither table unless a 'NextSong' event yields that row.
FilteringLaw ==
    pc = "done" =>
        /\ \A r \in Rows(Table("users_tables/")) :
              \E e \in NextSongEvents : r = UserRow(e)
        /\ \A r \in Rows(Table("songplays_tables/")) :
              \E e \in NextSongEvents : \E s \in Rows(song_files) :
                 WithoutId(r) = PlayRow(e, s)
        /\ \A e \in Rows(log_files) \ NextSongEvents :
              /\ (\A n \in NextSongEvents : UserRow(n) # UserRow(e))
                    => UserRow(e) \notin Rows(Table("users_tables/"))
              /\ \A r \in Rows(Table("songplays_tables/")) :
                    ~FromEvent(r, e)

\* C1 witness: a run completed on a log that holds an event of another
\* page whose song is in the catalog, next to a 'NextSong' event that
\* produced a users row and a songplays row.
FilteringWitness ==
    /\ pc = "done"
    /\ \E e \in Rows(log_files) \ NextSongEvents :
          \E s \in Rows(song_files) :
             e.song = s.title /\ e.artist = s.artist_name
    /\ Table("users_tables/") # << >>
    /\ Table("songplays_tables/") # << >>

\* the (song, artist) pair of e is the (title, artist_name) pair of s
SamePair(e, s) == e.song = s.title /\ e.artist = s.artist_name

\* C2 (join law): every songplays row comes from an event and a catalog
\* record with the same (song, artist) = (title, artist_name) pair, and an
\* event whose pair is the pair of no catalog record has no songplays row.
JoinLaw ==
    pc = "done" =>
        /\ \A r \in Rows(Table("songplays_tables/")) :
              \E e \in Rows(log_files) : \E s \in Rows(song_files) :
                 SamePair(e, s) /\ WithoutId(r) = PlayRow(e, s)
        /\ \A e \in Rows(log_files) :
              (\A s \in Rows(song_files) : ~SamePair(e, s))
                 => \A r \in Rows(Table("songplays_tables/")) :
                       ~FromEvent(r, e)

\* C2 witness: a completed run whose log holds a 'NextSong' event with a
\* title of the catalog under another artist, and whose songplays table is
\* not empty.
JoinWitness ==
    /\ pc = "done"
    /\ \E e \in NextSongEvents :
          /\ \E s \in Rows(song_files) : e.song = s.title
          /\ \A s \in Rows(song_files) : ~SamePair(e, s)
    /\ Table("songplays_tables/") # << >>

\* C3 (null-timestamp law): once process_log_data has completed, no row of
\* the time table has a null start_time.
NullTimestampLaw ==
    pc = "done" =>
        \A r \in Rows(Table("time_tables/")) : ~r.start_time.null

\* C3 witness: a completed run whose log holds a 'NextSong' event without
\* ts, or with a ts that is no number, and whose time table is not empty.
NullTimestampWitness ==
    /\ pc = "done"
    /\ \E e \in NextSongEvents : e.ts.tag \in {"absent", "str"}
    /\ \E e \in NextSongEvents : e.ts.tag = "num"
    /\ Table("time_tables/") # << >>

\* the rows of an output table as a bag, songplay_id left out
Logical(dir, rows) ==
    IF dir = "songplays_tables/"
    THEN RowBag([i \in 1..Len(rows) |-> WithoutId(rows[i])])
    ELSE RowBag(rows)

\* C4 (idempotence): when a second or later run of main completes on the
\* unchanged input, every output table holds the rows it held when the run
\* began, which is when the run before it completed; songplays is compared
\* on the columns other than songplay_id.
Idempotence ==
    (pc = "done" /\ run > 1) =>
        \A d \in TableDirs :
            Logical(d, Table(d)) = Logical(d, Content(start, out_data \o d))

\* C4 witness: the second run completed, the tables are not empty, and the
\* songplays rows got other songplay_id values than in the first run.
IdempotenceWitness ==
    /\ pc = "done"
    /\ run = 2
    /\ \A d \in TableDirs : Table(d) # << >>
    /\ Rows(Table("songplays_tables/"))
          # Rows(Content(start, out_data \o "songplays_tables/"))

\* the logical rows the queries derive from the input for a table
Derived(dir) ==
    CASE dir = "songs_tables/" -> RowBag(songs_table(song_files))
      [] dir = "artists_tables/" -> RowBag(artists_table(song_files))
      [] dir = "users_tables/" -> RowBag(users_table(LogView))
      [] dir = "time_tables/" -> RowBag(time_table(LogView))
      [] dir = "songplays_tables/" -> RowBag(Joined(LogView, song_files))

\* C5 (overwrite semantics): after a run of main that completed its five
\* writes, each output location holds exactly the rows derived from the
\* input, whatever it held before the run.
OverwriteSemantics ==
    pc = "done" =>
        \A d \in TableDirs :
            /\ Logical(d, Table(d)) = Derived(d)
            /\ d = "songplays_tables/" =>
                  \A i, j \in 1..Len(Table(d)) :
                     Table(d)[i].songplay_id = Table(d)[j].songplay_id
                        => i = j

\* C5 witness: the first run completed over locations that all held rows
\* of an earlier input, and left rows in every table.
OverwriteWitness ==
    /\ pc = "done"
    /\ run = 1
    /\ start = StaleStore
    /\ \A d \in TableDirs : Table(d) # << >>

\* C6 (no rollback): when a read or a write has failed, the process has
\* ended (no step follows) and every location whose write completed
\* earlier in the run holds the rows that write derived from the input.
NoRollback ==
    pc = "crashed" =>
        /\ ~ENABLED Next
        /\ \A d \in TableDirs :
              (\E i \in 1..Len(trace) :
                  trace[i].ok /\ trace[i].path = out_data \o d)
                 => Logical(d, Table(d)) = Derived(d)

\* C6 witness: a step failed after a write completed that changed what its
\* location held when the run began.
NoRollbackWitness ==
    /\ pc = "crashed"
    /\ \E i \in 1..Len(trace) :
          /\ trace[i].ok
          /\ IsWrite(trace[i].step)
          /\ Content(store, trace[i].path) # Content(start, trace[i].path)

\* C7 (configuration fail-fast): when dl.cfg is missing, has no AWS
\* section, or offers one of the two keys neither in AWS nor in DEFAULT,
\* the process never gets past the module-level load: no session is
\* created, no step reads or writes, and the store is as it was.
ConfigFailFast ==
    (\/ ~cfg.exists
     \/ "AWS" \notin cfg.sections
     \/ \E key \in {KeyId, Secret} :
           /\ <<"AWS", key>> \notin cfg.options
           /\ <<"DEFAULT", key>> \notin cfg.options)
       => /\ pc \in {"import", "crashed"}
          /\ ~spark
          /\ trace = << >>
          /\ store = start
          /\ run = 1

\* C7 witness: the load failed on a dl.cfg whose AWS section has the key
\* id and lacks the secret, with rows of an earlier input in the store.
ConfigFailFastWitness ==
    /\ pc = "crashed"
    /\ cfg.exists
    /\ "AWS" \in cfg.sections
    /\ <<"AWS", KeyId>> \in cfg.options
    /\ \A sec \in {"AWS", "DEFAULT"} : <<sec, Secret>> \notin cfg.options
    /\ store = StaleStore

ReadSuffixes == {"song_data/*/*/*/*.json", "log_data/*.json"}

\* C8 (mode flag): once main has chosen, the locations are one of the two
\* fixed pairs, the local one for True and the remote one for False; every
\* read of the run is under that input root, every write under that output
\* root, in both stages, and no location elsewhere changes.
ModeFlag ==
    spark =>
        /\ <<in_data, out_data>> \in
              { <<"data/", "sparkify_data_lake/">>,
                <<"s3a://udacity-dend/",
                  "s3a://udacity-dend/sparkify_data_lake/">> }
        /\ local_data = "True" => in_data = "data/"
        /\ local_data = "False" => in_data = "s3a://udacity-dend/"
        /\ \A i \in 1..Len(trace) :
              /\ trace[i].step \in {"read_songs", "read_log", "reread_songs"}
                    => \E x \in ReadSuffixes : trace[i].path = in_data \o x
              /\ IsWrite(trace[i].step)
                    => \E d \in TableDirs : trace[i].path = out_data \o d
        /\ \A p \in (DOMAIN store) \cup (DOMAIN start) :
              (\A d \in TableDirs : p # out_data \o d)
                 => Content(store, p) = Content(start, p)

\* C8 witness: a run in remote mode completed all its writes.
ModeFlagWitness ==
    /\ pc = "done"
    /\ local_data = "False"
    /\ \A d \in TableDirs :
          \E i \in 1..Len(trace) :
             trace[i].ok /\ trace[i].path = out_data \o d

ClaimedOrder ==
    << "session", "write_songs", "write_artists", "write_users",
       "write_time", "reread_songs", "write_songplays" >>

\* C9 (strict stage order): the steps of a run among session
\* initialization, the five writes and the catalog re-read happen in the
\* order session, songs, artists, users, time, re-read, songplays, each at
\* most once; every step but the last of the run completed, and a failed
\* step is the last of the run.
StageOrder ==
    LET named == SelectSeq(trace,
                     LAMBDA e : \E i \in 1..Len(ClaimedOrder) :
                                   ClaimedOrder[i] = e.step)
    IN  /\ Len(named) <= Len(ClaimedOrder)
        /\ \A i \in 1..Len(named) : named[i].step = ClaimedOrder[i]
        /\ \A i \in 1..(Len(trace) - 1) : trace[i].ok
        /\ (trace # << >> /\ ~trace[Len(trace)].ok) => pc = "crashed"

\* C9 witness: a run went through all its steps.
StageOrderWitness ==
    /\ pc = "done"
    /\ \A i \in 1..Len(ClaimedOrder) : Completed(ClaimedOrder[i])

\* C10 (one fact row per qualifying event): after a completed run the
\* songplays table holds exactly one row for each 'NextSong' event whose
\* (song, artist) pair is the pair of a catalog record.
OneRowPerQualifyingEvent ==
    pc = "done" =>
        Len(Table("songplays_tables/")) =
            Len(SelectSeq(log_files,
                    LAMBDA e : /\ e.page = "NextSong"
                               /\ \E s \in Rows(song_files) :
                                     JoinOn(e, s)))

====
